---- MODULE Spec2Model ----
(***************************************************************************)
(* A model of the Bloom filter of src/bloomfilter.go.                      *)
(*                                                                         *)
(* A uint64 word of the bit array is modelled by the set of its set bit    *)
(* positions (a subset of 0..63): OR is union, 1 << s is {s}, w >> s != 0  *)
(* is "some position >= s is in w", the population count is the            *)
(* cardinality.  Keys, raw hashes, m and n are naturals small enough for   *)
(* the model checker's integers; XOR is computed bitwise on them.          *)
(*                                                                         *)
(* Slices are addresses into a heap of arrays, so that sharing of storage  *)
(* between filters (or its absence) is part of the state.                  *)
(***************************************************************************)
EXTENDS Integers, Sequences, FiniteSets, TLC

VARIABLES
    filters,    \* the caller's *Filter variables: slot -> Filter struct or NoFilter
    heap,       \* the arrays behind the slices: address -> sequence
    hist,       \* history: per slot, the raw hashes Add-ed and the number of Add calls
    last        \* the most recent call: its inputs, the operands before it, its results

vars == <<filters, heap, hist, last>>

-----------------------------------------------------------------------------
(* Bounds and input domains *)

\* Add is not called on a filter whose n has reached MaxAdds.
MaxAdds == 2

\* The caller's variables holding filters.
Slots == {1, 2}

\* Arguments given to New: m (0 and 1 are rejected) and k (0 is rejected).
MValues == {0, 1, 3, 70}
KValues == {0, 1, 2}

\* The key sequences the random key generator may draw, and the raw hashes of
\* the elements the caller uses.  1 and 66 differ in a low and a high bit, so
\* derived indices fall below and above m = 3 and in both words of m = 70.
KeyChoices == {<<1>>, <<1, 1>>, <<1, 66>>, <<66, 1>>}
HashValues == {0, 3}

\* Arguments given to OptimalK and OptimalM: the expected number of elements,
\* the filter sizes, and the probabilities p in thousandths (0.001 .. 0.9).
MaxNValues == (1..20) \cup {100}
SizeValues == {2, 3, 70, 1000}
PValues == {1, 10, 100, 500, 900}

\* Width of one word of the bit array: (m+63)>>6, i>>6, i&0x3f.
WordBits == 64

\* Bytes of a 64-bit value on the wire.
WordBytes == WordBits \div 8

-----------------------------------------------------------------------------
(* uint64 arithmetic on small naturals *)

\* the set bit positions of v (v < 2^31), computed
BitPositions(v) == {b \in 0..30 : (v \div (2 ^ b)) % 2 = 1}

\* the same for the values of one byte, as a table
ByteBits == [v \in 0..255 |-> BitPositions(v)]

\* the set bit positions of v (v < 2^31)
BitsOf(v) == IF v <= 255 THEN ByteBits[v] ELSE BitPositions(v)

RECURSIVE ValueOf(_)
ValueOf(S) ==
    IF S = {} THEN 0
    ELSE LET b == CHOOSE x \in S : TRUE IN (2 ^ b) + ValueOf(S \ {b})

\* a ^ b
Xor(a, b) ==
    LET A == BitsOf(a)
        B == BitsOf(b)
    IN ValueOf((A \ B) \cup (B \ A))

\* ceiling(m / 64) = (m+63)>>6
WordCount(m) == (m + (WordBits - 1)) \div WordBits

\* make([]uint64, len) for a bit array: zeroed words
ZeroWords(len) == [i \in 1..len |-> {}]

\* make([]uint64, len) for a key array: zeroes
ZeroKeys(len) == [i \in 1..len |-> 0]

\* the builtin copy(dst, src): the first min(len(dst), len(src)) elements
CopyInto(dst, src) == [i \in 1..Len(dst) |-> IF i <= Len(src) THEN src[i] ELSE dst[i]]

Min(S) == CHOOSE x \in S : \A y \in S : x <= y

RECURSIVE SumSeq(_)
SumSeq(s) == IF s = <<>> THEN 0 ELSE Head(s) + SumSeq(Tail(s))

-----------------------------------------------------------------------------
(* Filters: structs, the heap, and views *)

NoFilter == [nil |-> TRUE]

\* the zero value of Filter: nil slices (address 0), m = n = 0
ZeroFilter == [bits |-> 0, keys |-> 0, m |-> 0, n |-> 0]

Deref(hp, a) == IF a = 0 THEN <<>> ELSE hp[a]

\* what a Filter struct denotes over a heap: its fields with the slices' contents
View(f, hp) ==
    IF f = NoFilter THEN NoFilter
    ELSE [m |-> f.m, n |-> f.n, keys |-> Deref(hp, f.keys), bits |-> Deref(hp, f.bits)]

ViewOf(s) == View(filters[s], heap)

Live(s) == filters[s] # NoFilter

M(v) == v.m

K(v) == Len(v.keys)

N(v) == v.n

-----------------------------------------------------------------------------
(* The operations of src/bloomfilter.go, over a Filter struct f and a heap hp *)

\* the key sequences newKeys(k) may return
KeySeqs(k) == {ks \in KeyChoices : Len(ks) = k}

\* New checking m < 1 where the code has m <= 1
New_OffByOne(m, k, ks, hp) ==
    IF m < 1 \/ k = 0
    THEN [panic |-> TRUE, f |-> NoFilter, hp |-> hp]
    ELSE [panic |-> FALSE,
          f |-> [m |-> m, n |-> 0, bits |-> Len(hp) + 1, keys |-> Len(hp) + 2],
          hp |-> hp \o <<ZeroWords(WordCount(m)), ks>>]

\* New(m, k), with ks the keys newKeys(k) drew
New(m, k, ks, hp) ==
    IF m <= 1 \/ k = 0
    THEN [panic |-> TRUE, f |-> NoFilter, hp |-> hp]
    ELSE LET hp1 == Append(hp, ZeroWords(WordCount(m)))
             hp2 == Append(hp1, ks)
         IN [panic |-> FALSE,
             f |-> [m |-> m, n |-> 0, bits |-> Len(hp1), keys |-> Len(hp2)],
             hp |-> hp2]

\* float64 values are modelled in fixed point: x stands for x / Milli, and a
\* product or quotient is rounded to the nearest thousandth.
Milli == 1000

Float64(n) == n * Milli

FMul(x, y) == ((x * y) + (Milli \div 2)) \div Milli

FDiv(x, y) == ((x * Milli) + (y \div 2)) \div y

\* uint64(math.Ceil(x)), x >= 0
Ceil(x) == (x + (Milli - 1)) \div Milli

\* math.Ln2
Ln2 == 693

\* math.Log(p) for p thousandths
Log(p) ==
    CASE p = 1 -> -6908
      [] p = 10 -> -4605
      [] p = 100 -> -2303
      [] p = 500 -> -693
      [] p = 900 -> -105

\* OptimalK(m, maxN) = ceil(m * Ln2 / maxN)
OptimalK(m, maxN) == Ceil(FDiv(FMul(Float64(m), Ln2), Float64(maxN)))

\* OptimalM(maxN, p): the Go expression -n * Log(p) / Ln2 * Ln2 groups from the
\* left, ((-n * Log(p)) / Ln2) * Ln2
OptimalM(maxN, p) == Ceil(FMul(FDiv(FMul(-Float64(maxN), Log(p)), Ln2), Ln2))

\* hash XORing the raw hash with the first key at every position (f.keys[0]
\* where the code has f.keys[i])
hash_FirstKey(f, hp, h) ==
    LET keys == Deref(hp, f.keys)
    IN [i \in 1..Len(keys) |-> Xor(h, keys[1])]

\* f.hash(v), v.BloomFilterHash() = h
hash(f, hp, h) ==
    LET keys == Deref(hp, f.keys)
    IN [i \in 1..Len(keys) |-> Xor(h, keys[i])]

\* f.getBit(i); panics on a zero m (i %= 0) or an index outside f.bits
getBit(f, hp, i) ==
    IF i >= f.m /\ f.m = 0
    THEN [panic |-> TRUE, val |-> FALSE]
    ELSE LET j == IF i >= f.m THEN i % f.m ELSE i
             bits == Deref(hp, f.bits)
             w == (j \div WordBits) + 1
         IN IF w > Len(bits)
            THEN [panic |-> TRUE, val |-> FALSE]
            ELSE [panic |-> FALSE,
                  val |-> \E b \in bits[w] : b >= j % WordBits]

\* w + (1 << b): a set bit carries into the next position
RECURSIVE PlusBit(_, _)
PlusBit(w, b) ==
    IF b >= WordBits THEN w
    ELSE IF b \in w THEN PlusBit(w \ {b}, b + 1)
    ELSE w \cup {b}

\* setBit with += where the code has |=
setBit_Plus(f, hp, i) ==
    IF i >= f.m /\ f.m = 0
    THEN [panic |-> TRUE, hp |-> hp]
    ELSE LET j == IF i >= f.m THEN i % f.m ELSE i
             w == (j \div WordBits) + 1
         IN IF w > Len(Deref(hp, f.bits))
            THEN [panic |-> TRUE, hp |-> hp]
            ELSE [panic |-> FALSE,
                  hp |-> [hp EXCEPT ![f.bits][w] = PlusBit(@, j % WordBits)]]

\* setBit reducing i modulo the capacity of the bit array, 64 * len(f.bits),
\* where the code reduces it modulo m
setBit_WrapCapacity(f, hp, i) ==
    IF Len(Deref(hp, f.bits)) = 0
    THEN [panic |-> TRUE, hp |-> hp]
    ELSE LET j == i % (WordBits * Len(Deref(hp, f.bits)))
             w == (j \div WordBits) + 1
         IN [panic |-> FALSE, hp |-> [hp EXCEPT ![f.bits][w] = @ \cup {j % WordBits}]]

\* setBit storing the mask with = where the code has |=
setBit_Assign(f, hp, i) ==
    IF i >= f.m /\ f.m = 0
    THEN [panic |-> TRUE, hp |-> hp]
    ELSE LET j == IF i >= f.m THEN i % f.m ELSE i
             w == (j \div WordBits) + 1
         IN IF w > Len(Deref(hp, f.bits))
            THEN [panic |-> TRUE, hp |-> hp]
            ELSE [panic |-> FALSE, hp |-> [hp EXCEPT ![f.bits][w] = {j % WordBits}]]

\* setBit with ^= where the code has |=
setBit_Toggle(f, hp, i) ==
    IF i >= f.m /\ f.m = 0
    THEN [panic |-> TRUE, hp |-> hp]
    ELSE LET j == IF i >= f.m THEN i % f.m ELSE i
             w == (j \div WordBits) + 1
         IN IF w > Len(Deref(hp, f.bits))
            THEN [panic |-> TRUE, hp |-> hp]
            ELSE [panic |-> FALSE,
                  hp |-> [hp EXCEPT ![f.bits][w] =
                             (@ \ {j % WordBits}) \cup ({j % WordBits} \ @)]]

\* setBit without the reduction of i modulo m
setBit_NoWrap(f, hp, i) ==
    LET w == (i \div WordBits) + 1
    IN IF w > Len(Deref(hp, f.bits))
       THEN [panic |-> TRUE, hp |-> hp]
       ELSE [panic |-> FALSE, hp |-> [hp EXCEPT ![f.bits][w] = @ \cup {i % WordBits}]]

\* f.setBit(i): the heap after it
setBit(f, hp, i) ==
    IF i >= f.m /\ f.m = 0
    THEN [panic |-> TRUE, hp |-> hp]
    ELSE LET j == IF i >= f.m THEN i % f.m ELSE i
             bits == Deref(hp, f.bits)
             w == (j \div WordBits) + 1
         IN IF w > Len(bits)
            THEN [panic |-> TRUE, hp |-> hp]
            ELSE [panic |-> FALSE,
                  hp |-> [hp EXCEPT ![f.bits][w] = @ \cup {j % WordBits}]]

\* the loop of Add: setBit for each derived index in turn, stopping at a panic
RECURSIVE SetBits(_, _, _)
SetBits(f, hp, idxs) ==
    IF idxs = <<>> THEN [panic |-> FALSE, hp |-> hp]
    ELSE LET r == setBit(f, hp, Head(idxs))
         IN IF r.panic THEN r ELSE SetBits(f, r.hp, Tail(idxs))

\* the loop of Contains: false at the first unset bit
RECURSIVE TestBits(_, _, _)
TestBits(f, hp, idxs) ==
    IF idxs = <<>> THEN [panic |-> FALSE, val |-> TRUE]
    ELSE LET r == getBit(f, hp, Head(idxs))
         IN IF r.panic THEN r
            ELSE IF ~r.val THEN [panic |-> FALSE, val |-> FALSE]
            ELSE TestBits(f, hp, Tail(idxs))

\* f.Contains(v)
Contains(f, hp, h) == TestBits(f, hp, hash(f, hp, h))

\* Add counting an element only when it was not reported present before
Add_Distinct(f, hp, h) ==
    LET r == SetBits(f, hp, hash(f, hp, h))
        seen == TestBits(f, hp, hash(f, hp, h)).val
    IN IF r.panic
       THEN [panic |-> TRUE, f |-> f, hp |-> r.hp]
       ELSE [panic |-> FALSE, f |-> IF seen THEN f ELSE [f EXCEPT !.n = @ + 1], hp |-> r.hp]

\* f.Add(v): the struct and the heap after it
Add(f, hp, h) ==
    LET r == SetBits(f, hp, hash(f, hp, h))
    IN IF r.panic
       THEN [panic |-> TRUE, f |-> f, hp |-> r.hp]
       ELSE [panic |-> FALSE, f |-> [f EXCEPT !.n = @ + 1], hp |-> r.hp]

\* IsCompatible without the loop over the keys
IsCompatible_NoKeys(f, f2, hp) ==
    [panic |-> FALSE,
     val |-> f.m = f2.m /\ Len(Deref(hp, f.keys)) = Len(Deref(hp, f2.keys))]

\* f.IsCompatible(f2); panics if the key loop indexes outside f2.keys
IsCompatible(f, f2, hp) ==
    LET k1 == Deref(hp, f.keys)
        k2 == Deref(hp, f2.keys)
    IN IF f.m # f2.m \/ Len(k1) # Len(k2)
       THEN [panic |-> FALSE, val |-> FALSE]
       ELSE LET stop == {i \in 1..Len(k1) : i > Len(k2) \/ k1[i] # k2[i]}
            IN IF stop = {} THEN [panic |-> FALSE, val |-> TRUE]
               ELSE IF Min(stop) > Len(k2) THEN [panic |-> TRUE, val |-> FALSE]
               ELSE [panic |-> FALSE, val |-> FALSE]

\* Copy taking over the receiver's bit array (out.bits = f.bits) instead of
\* copying it into a new one
Copy_Shallow(f, hp) ==
    LET hp1 == Append(hp, CopyInto(ZeroKeys(Len(Deref(hp, f.keys))), Deref(hp, f.keys)))
    IN [f |-> [m |-> f.m, n |-> f.n, keys |-> Len(hp1), bits |-> f.bits],
        hp |-> hp1]

\* Copy starting the copy's n at 0 instead of f.n
Copy_FreshN(f, hp) ==
    LET hp1 == Append(hp, CopyInto(ZeroKeys(Len(Deref(hp, f.keys))), Deref(hp, f.keys)))
        hp2 == Append(hp1, CopyInto(ZeroWords(WordCount(f.m)), Deref(hp, f.bits)))
    IN [f |-> [m |-> f.m, n |-> 0, keys |-> Len(hp1), bits |-> Len(hp2)],
        hp |-> hp2]

\* f.Copy(): a new struct over two new arrays
Copy(f, hp) ==
    LET hp1 == Append(hp, CopyInto(ZeroKeys(Len(Deref(hp, f.keys))), Deref(hp, f.keys)))
        hp2 == Append(hp1, CopyInto(ZeroWords(WordCount(f.m)), Deref(hp, f.bits)))
    IN [f |-> [m |-> f.m, n |-> f.n, keys |-> Len(hp1), bits |-> Len(hp2)],
        hp |-> hp2]

\* the loop of Union with = where the code has |=
OrInto_Overwrite(dst, src) == [i \in 1..Len(dst) |-> IF i <= Len(src) THEN src[i] ELSE dst[i]]

\* the loop of Union with &= where the code has |=
OrInto_And(dst, src) == [i \in 1..Len(dst) |-> IF i <= Len(src) THEN dst[i] \cap src[i] ELSE dst[i]]

\* the loop of Union: out.bits[i] |= x for each word x of f2.bits
OrInto(dst, src) == [i \in 1..Len(dst) |-> IF i <= Len(src) THEN dst[i] \cup src[i] ELSE dst[i]]

\* Union without the compatibility check
Union_NoCheck(f, f2, hp) ==
    LET out == Copy(f, hp)
        src == Deref(hp, f2.bits)
        dst == Deref(out.hp, out.f.bits)
    IN IF Len(src) > Len(dst)
       THEN [panic |-> TRUE, err |-> FALSE, f |-> NoFilter, hp |-> hp]
       ELSE [panic |-> FALSE, err |-> FALSE, f |-> out.f,
             hp |-> [out.hp EXCEPT ![out.f.bits] = OrInto(dst, src)]]

\* f.Union(f2)
Union(f, f2, hp) ==
    LET c == IsCompatible(f, f2, hp)
    IN IF c.panic THEN [panic |-> TRUE, err |-> FALSE, f |-> NoFilter, hp |-> hp]
       ELSE IF ~c.val THEN [panic |-> FALSE, err |-> TRUE, f |-> NoFilter, hp |-> hp]
       ELSE LET out == Copy(f, hp)
                src == Deref(hp, f2.bits)
                dst == Deref(out.hp, out.f.bits)
            IN IF Len(src) > Len(dst)
               THEN [panic |-> TRUE, err |-> FALSE, f |-> NoFilter, hp |-> hp]
               ELSE [panic |-> FALSE, err |-> FALSE, f |-> out.f,
                     hp |-> [out.hp EXCEPT ![out.f.bits] = OrInto(dst, src)]]

\* the number of ones PreciseFilledRatio counts (it returns ones / m)
OnesCount(bits) == SumSeq([i \in 1..Len(bits) |-> Cardinality(bits[i])])

PreciseFilledRatio(f, hp) == [ones |-> OnesCount(Deref(hp, f.bits)), m |-> f.m]

-----------------------------------------------------------------------------
(* The wire format: encoding/binary, little-endian *)

\* the 8 bytes of a word, least significant first
WordBytesLE(w) ==
    [j \in 1..WordBytes |->
        ValueOf({b - 8 * (j - 1) : b \in {x \in w : x \div 8 = j - 1}})]

\* the word 8 bytes denote
WordOfBytes(bs) ==
    UNION {{8 * (j - 1) + b : b \in BitsOf(bs[j])} : j \in 1..WordBytes}

\* binary.Write of a uint64 (value < 2^31)
Uint64LE(v) == WordBytesLE(BitsOf(v))

RECURSIVE Flatten(_)
Flatten(ss) == IF ss = <<>> THEN <<>> ELSE Head(ss) \o Flatten(Tail(ss))

\* f.MarshalBinary(): k, n, m, keys, bits; bytes.Buffer never fails a write
MarshalBinary(f, hp) ==
    LET keys == Deref(hp, f.keys)
        bits == Deref(hp, f.bits)
    IN Uint64LE(Len(keys)) \o Uint64LE(f.n) \o Uint64LE(f.m)
       \o Flatten([i \in 1..Len(keys) |-> Uint64LE(keys[i])])
       \o Flatten([i \in 1..Len(bits) |-> WordBytesLE(bits[i])])

\* How binary.Read(buf, order, x) treats an x that is a uint32 or uint64 value
\* rather than a pointer; it depends on the release of the Go library:
\*   "rejects": it returns the error "invalid type"
\*   "ignores": it consumes the value's size in bytes, stores nothing, returns nil
ReadBehaviours == {"rejects", "ignores"}

\* the size in bytes of UnmarshalBinary's k, a uint32
KReadBytes == 4

\* bytes binary.Read consumes for the uint32 value k, then for f.n and f.m
SkippedBytes == KReadBytes + WordBytes + WordBytes

\* binary.Read into a []uint64 of len words from data at offset off (0-based)
ReadWords(data, off, len) ==
    [i \in 1..len |->
        WordOfBytes([j \in 1..WordBytes |-> data[off + WordBytes * (i - 1) + j]])]

\* f.UnmarshalBinary(data) under read behaviour tc: the error, struct and heap after
UnmarshalBinary(f, hp, data, tc) ==
    IF tc = "rejects" \/ Len(data) < SkippedBytes
    THEN \* one of the first three reads fails: nothing was assigned
         [err |-> TRUE, f |-> f, hp |-> hp]
    ELSE \* k is still 0, f.n and f.m are as before
         LET hp1 == Append(hp, ZeroKeys(0))
             hp2 == Append(hp1, ZeroWords(f.n))
             g == [f EXCEPT !.keys = Len(hp1), !.bits = Len(hp2)]
         IN IF Len(data) - SkippedBytes < WordBytes * f.n
            THEN [err |-> TRUE, f |-> g, hp |-> hp2]
            ELSE [err |-> FALSE, f |-> g,
                  hp |-> [hp2 EXCEPT ![Len(hp2)] = ReadWords(data, SkippedBytes, f.n)]]

-----------------------------------------------------------------------------
(* The heap in canonical form: unreachable arrays dropped, addresses renumbered
   in the order the slots refer to them.  Sharing between slots is preserved. *)

RECURSIVE RefsOf(_, _)
RefsOf(fs, todo) ==
    IF todo = {} THEN <<>>
    ELSE LET s == Min(todo)
         IN (IF fs[s] = NoFilter THEN <<>> ELSE <<fs[s].keys, fs[s].bits>>)
            \o RefsOf(fs, todo \ {s})

RECURSIVE Uniq(_, _)
Uniq(seq, seen) ==
    IF seq = <<>> THEN <<>>
    ELSE IF Head(seq) = 0 \/ Head(seq) \in seen THEN Uniq(Tail(seq), seen)
    ELSE <<Head(seq)>> \o Uniq(Tail(seq), seen \cup {Head(seq)})

Renumber(fs, hp, order) ==
    LET addr(a) == IF a = 0 THEN 0 ELSE CHOOSE i \in 1..Len(order) : order[i] = a
    IN [filters |-> [s \in Slots |->
                        IF fs[s] = NoFilter THEN NoFilter
                        ELSE [fs[s] EXCEPT !.keys = addr(@), !.bits = addr(@)]],
        heap |-> [i \in 1..Len(order) |-> hp[order[i]]]]

Commit(fs, hp) == Renumber(fs, hp, Uniq(RefsOf(fs, Slots), {}))

-----------------------------------------------------------------------------
(* State *)

\* the history of a filter no Add was called on
NoAdds == [adds |-> {}, calls |-> 0]

\* the shape of a call record
NoCall ==
    [op |-> "none", a |-> 0, b |-> 0, dst |-> 0, arg |-> 0, arg2 |-> 0,
     pre |-> NoFilter, pre2 |-> NoFilter, out |-> NoFilter,
     ret |-> FALSE, ones |-> 0, num |-> 0, err |-> FALSE, panic |-> FALSE,
     data |-> <<>>, whole |-> FALSE, tc |-> "none"]

Init ==
    /\ filters = [s \in Slots |-> NoFilter]
    /\ heap = <<>>
    /\ hist = [s \in Slots |-> NoAdds]
    /\ last = NoCall

\* the caller stores fs and hp
Store(fs, hp) ==
    \E c \in {Commit(fs, hp)} :
        /\ filters' = c.filters
        /\ heap' = c.heap

\* x := New(m, k) in the caller's variable dst
CallNew(dst, m, k) ==
    \/ /\ New(m, k, <<>>, heap).panic
       /\ last' = [NoCall EXCEPT !.op = "New", !.arg = m, !.arg2 = k, !.panic = TRUE]
       /\ UNCHANGED <<filters, heap, hist>>
    \/ \E ks \in KeySeqs(k) :
       \E r \in {New(m, k, ks, heap)} :
           /\ ~r.panic
           /\ Store([filters EXCEPT ![dst] = r.f], r.hp)
           /\ hist' = [hist EXCEPT ![dst] = NoAdds]
           /\ last' = [NoCall EXCEPT !.op = "New", !.arg = m, !.arg2 = k,
                          !.dst = dst, !.out = View(r.f, r.hp)]

\* filters[s].Add(v) with v.BloomFilterHash() = h
CallAdd(s, h) ==
    /\ Live(s)
    /\ filters[s].n < MaxAdds
    /\ \E r \in {Add(filters[s], heap, h)} :
          /\ Store([filters EXCEPT ![s] = r.f], r.hp)
          /\ hist' = [hist EXCEPT ![s] = [adds |-> @.adds \cup {h}, calls |-> @.calls + 1]]
          /\ last' = [NoCall EXCEPT !.op = "Add", !.a = s, !.arg = h,
                         !.pre = ViewOf(s), !.panic = r.panic]

\* filters[s].Contains(v) with v.BloomFilterHash() = h
CallContains(s, h) ==
    /\ Live(s)
    /\ \E r \in {Contains(filters[s], heap, h)} :
          last' = [NoCall EXCEPT !.op = "Contains", !.a = s, !.arg = h,
                      !.pre = ViewOf(s), !.ret = r.val, !.panic = r.panic]
    /\ UNCHANGED <<filters, heap, hist>>

\* filters[a].IsCompatible(*filters[b])
CallIsCompatible(a, b) ==
    /\ Live(a) /\ Live(b)
    /\ \E r \in {IsCompatible(filters[a], filters[b], heap)} :
          last' = [NoCall EXCEPT !.op = "IsCompatible", !.a = a, !.b = b,
                      !.pre = ViewOf(a), !.pre2 = ViewOf(b),
                      !.ret = r.val, !.panic = r.panic]
    /\ UNCHANGED <<filters, heap, hist>>

\* filters[dst] = filters[a].Copy(); the copy takes over the history of the original
CallCopy(a, dst) ==
    /\ Live(a)
    /\ \E r \in {Copy(filters[a], heap)} :
          /\ Store([filters EXCEPT ![dst] = r.f], r.hp)
          /\ last' = [NoCall EXCEPT !.op = "Copy", !.a = a, !.dst = dst,
                         !.pre = ViewOf(a), !.out = View(r.f, r.hp)]
    /\ hist' = [hist EXCEPT ![dst] = hist[a]]

\* out, err := filters[a].Union(*filters[b]); the caller inspects out and drops it
CallUnion(a, b) ==
    /\ Live(a) /\ Live(b)
    /\ \E r \in {Union(filters[a], filters[b], heap)} :
          /\ Store(filters, r.hp)
          /\ last' = [NoCall EXCEPT !.op = "Union", !.a = a, !.b = b,
                         !.pre = ViewOf(a), !.pre2 = ViewOf(b),
                         !.out = View(r.f, r.hp), !.err = r.err, !.panic = r.panic]
    /\ UNCHANGED hist

\* filters[s].PreciseFilledRatio()
CallPreciseFilledRatio(s) ==
    /\ Live(s)
    /\ last' = [NoCall EXCEPT !.op = "PreciseFilledRatio", !.a = s, !.pre = ViewOf(s),
                   !.ones = PreciseFilledRatio(filters[s], heap).ones]
    /\ UNCHANGED <<filters, heap, hist>>

\* filters[s].MarshalBinary()
CallMarshalBinary(s) ==
    /\ Live(s)
    /\ last' = [NoCall EXCEPT !.op = "MarshalBinary", !.a = s, !.pre = ViewOf(s),
                   !.data = MarshalBinary(filters[s], heap)]
    /\ UNCHANGED <<filters, heap, hist>>

Next ==
    \/ \E dst \in Slots, m \in MValues, k \in KValues : CallNew(dst, m, k)
    \/ \E s \in Slots, h \in HashValues : CallAdd(s, h)
    \/ \E s \in Slots, h \in HashValues : CallContains(s, h)
    \/ \E a \in Slots, b \in Slots : CallIsCompatible(a, b)
    \/ \E a \in Slots, dst \in Slots : CallCopy(a, dst)
    \/ \E a \in Slots, b \in Slots : CallUnion(a, b)
    \/ \E s \in Slots : CallPreciseFilledRatio(s)
    \/ \E s \in Slots : CallMarshalBinary(s)

Spec == Init /\ [][Next]_vars

\* the lengths at which the caller may have truncated data
Cuts(data) == {c \in {2, 20, 28} : c < Len(data)} \cup {Len(data)}

\* filters[dst].UnmarshalBinary(data), data being (a prefix of) the bytes
\* filters[src] marshals to; an empty dst is a new(Filter).  The behaviour of
\* binary.Read is drawn per call: each call behaves as some release does.
CallUnmarshalBinary(dst, src) ==
    /\ Live(src)
    /\ \E tc \in ReadBehaviours :
       \E full \in {MarshalBinary(filters[src], heap)} :
       \E cut \in Cuts(full) :
       \E recv \in {IF Live(dst) THEN filters[dst] ELSE ZeroFilter} :
       \E r \in {UnmarshalBinary(recv, heap, SubSeq(full, 1, cut), tc)} :
           /\ Store([filters EXCEPT ![dst] = r.f], r.hp)
           /\ last' = [NoCall EXCEPT !.op = "UnmarshalBinary", !.a = dst, !.b = src,
                          !.pre = View(recv, heap), !.pre2 = ViewOf(src),
                          !.data = SubSeq(full, 1, cut), !.whole = (cut = Len(full)),
                          !.err = r.err, !.tc = tc]
    /\ UNCHANGED hist

\* the caller has not decoded yet
Building == last.op # "UnmarshalBinary"

\* the caller builds filters, encodes them, and ends by decoding once
NextCodec ==
    \/ \E dst \in Slots, m \in MValues, k \in KValues : Building /\ CallNew(dst, m, k)
    \/ \E s \in Slots, h \in HashValues : Building /\ CallAdd(s, h)
    \/ \E s \in Slots : Building /\ CallMarshalBinary(s)
    \/ \E dst \in Slots, src \in Slots : Building /\ CallUnmarshalBinary(dst, src)

SpecCodec == Init /\ [][NextCodec]_vars

\* k := OptimalK(m, maxN)
CallOptimalK(m, maxN) ==
    /\ last' = [NoCall EXCEPT !.op = "OptimalK", !.arg = m, !.arg2 = maxN,
                   !.num = OptimalK(m, maxN)]
    /\ UNCHANGED <<filters, heap, hist>>

\* m := OptimalM(maxN, p)
CallOptimalM(maxN, p) ==
    /\ last' = [NoCall EXCEPT !.op = "OptimalM", !.arg = maxN, !.arg2 = p,
                   !.num = OptimalM(maxN, p)]
    /\ UNCHANGED <<filters, heap, hist>>

\* the caller sizes filters
NextSizing ==
    \/ \E m \in SizeValues, maxN \in MaxNValues : CallOptimalK(m, maxN)
    \/ \E maxN \in MaxNValues, p \in PValues : CallOptimalM(maxN, p)

SpecSizing == Init /\ [][NextSizing]_vars

-----------------------------------------------------------------------------
(* What the claims are stated with *)

\* a filter value as a struct over a heap of its own
StructOf(v) == [m |-> v.m, n |-> v.n, keys |-> 1, bits |-> 2]
HeapOf(v) == <<v.keys, v.bits>>

\* v.Contains(h) for a filter value v
ContainsV(v, h) == Contains(StructOf(v), HeapOf(v), h)

\* the filter now in slot s
Now(s) == ViewOf(s)

\* raw hashes of elements queried in the claims: those the caller adds and others
ProbeValues == HashValues \cup {1, 2, 64, 67}

\* indices given to getBit and setBit in the claims
IndexValues == (0..4) \cup (62..66) \cup (69..72) \cup (132..135) \cup (139..141)

\* bit j of the bit array of v is set (j < m)
BitIsSet(v, j) ==
    /\ (j \div WordBits) + 1 <= Len(v.bits)
    /\ (j % WordBits) \in v.bits[(j \div WordBits) + 1]

\* the positions of the bits set in a bit array
SetPositions(bits) ==
    UNION {{WordBits * (w - 1) + b : b \in bits[w]} : w \in 1..Len(bits)}

\* the logical indices ((h XOR key_i) mod m), i = 1..K, of an element of raw hash h
LogicalIndices(v, h) == {Xor(h, v.keys[i]) % v.m : i \in 1..Len(v.keys)}

\* same m, same K, element-wise equal keys in the same order
Compatible(v, v2) ==
    /\ v.m = v2.m
    /\ Len(v.keys) = Len(v2.keys)
    /\ \A i \in 1..Len(v.keys) : v.keys[i] = v2.keys[i]

\* The last call was one of those that create or change a filter.  The other
\* calls leave filters and heap as they are, so every content the caller's
\* filters can have is seen in a state where Changed holds.
Changed == last.op \in {"New", "Add", "Copy"}

-----------------------------------------------------------------------------
(* C1 *)

\* C1: no false negatives: every element Add-ed to a filter is reported present
\* by Contains, right after the Add and after any further Add of other elements.
C1_NoFalseNegatives ==
    \A s \in Slots :
        Live(s) =>
            \A h \in hist[s].adds :
                Contains(filters[s], heap, h) = [panic |-> FALSE, val |-> TRUE]

\* two different elements were added to a filter, and Contains of the one added
\* first has just returned true
C1_Witness ==
    /\ last.op = "Contains"
    /\ last.ret
    /\ hist[last.a].adds = HashValues
    /\ hist[last.a].calls = 2
    /\ BitIsSet(Now(last.a), Min(LogicalIndices(Now(last.a), last.arg)))

(* C2 *)

\* C2: definite absence: Contains returns true exactly when all K bits at the
\* logical indices ((hash XOR key_i) mod m) are set, and false as soon as one
\* of them is unset.
C2_DefiniteAbsence ==
    last.op = "Contains" =>
        /\ ~last.panic
        /\ last.ret = (\A j \in LogicalIndices(last.pre, last.arg) : BitIsSet(last.pre, j))

(* C3 *)

\* C3: round trip: UnmarshalBinary of the whole output of MarshalBinary(f)
\* succeeds and leaves the receiver with the m, n, keys and bit array of f.
C3_RoundTrip ==
    (last.op = "UnmarshalBinary" /\ last.whole) =>
        /\ ~last.err
        /\ Now(last.a) = last.pre2

(* C4 *)

\* C4: union never removes a positive: for compatible f1, f2 and any element,
\* if f1 or f2 reports it present, so does the filter f1.Union(f2) returns.
C4_UnionKeepsPositives ==
    (last.op = "Union" /\ Compatible(last.pre, last.pre2)) =>
        /\ ~last.err /\ ~last.panic
        /\ last.out # NoFilter
        /\ \A h \in ProbeValues :
              (ContainsV(last.pre, h).val \/ ContainsV(last.pre2, h).val)
                  => ContainsV(last.out, h) = [panic |-> FALSE, val |-> TRUE]

\* a union of two compatible filters of different content, which reports an
\* element present that only its second operand reported
C4_Witness ==
    /\ last.op = "Union"
    /\ Compatible(last.pre, last.pre2)
    /\ last.a # last.b
    /\ \E h \in ProbeValues :
          /\ ~ContainsV(last.pre, h).val
          /\ ContainsV(last.pre2, h).val
          /\ ContainsV(last.out, h).val

(* C5 *)

\* C5: Union of incompatible filters (differing m, K or keys) returns an error
\* and no filter, does not panic, and leaves both operands as they were.
C5_UnionRejectsIncompatible ==
    (last.op = "Union" /\ ~Compatible(last.pre, last.pre2)) =>
        /\ last.err
        /\ last.out = NoFilter
        /\ ~last.panic
        /\ Now(last.a) = last.pre
        /\ Now(last.b) = last.pre2

\* a rejected union of two filters of the same m and K whose keys differ only
\* in the second key, both holding bits
C5_Witness ==
    /\ last.op = "Union"
    /\ last.err
    /\ last.pre.m = last.pre2.m
    /\ Len(last.pre.keys) = 2 /\ Len(last.pre2.keys) = 2
    /\ last.pre.keys[1] = last.pre2.keys[1]
    /\ last.pre.keys[2] # last.pre2.keys[2]
    /\ last.pre.n > 0 /\ last.pre2.n > 0

(* C6 *)

\* C6: N() is the number of Add calls performed on the filter, repeated
\* insertions of one element counted each time, and Contains leaves N() as it was.
C6_InsertionCounter ==
    /\ \A s \in Slots : Live(s) => N(Now(s)) = hist[s].calls
    /\ last.op = "Contains" => N(Now(last.a)) = N(last.pre)

\* the same element was added twice, and N() is 2
C6_Witness ==
    /\ last.op = "Add"
    /\ hist[last.a].calls = 2
    /\ hist[last.a].adds = {last.arg}
    /\ N(Now(last.a)) = 2

(* C7 *)

\* C7: monotone fill: an Add clears no bit that was set, so the number of set
\* bits PreciseFilledRatio counts does not decrease (m being fixed).
C7_MonotoneFill ==
    last.op = "Add" =>
        /\ Now(last.a).m = last.pre.m
        /\ Len(Now(last.a).bits) = Len(last.pre.bits)
        /\ \A i \in 1..Len(last.pre.bits) : last.pre.bits[i] \subseteq Now(last.a).bits[i]
        /\ PreciseFilledRatio(filters[last.a], heap).ones >= OnesCount(last.pre.bits)

\* an Add on a filter that already held bits has raised the count of set bits
C7_Witness ==
    /\ last.op = "Add"
    /\ OnesCount(last.pre.bits) > 0
    /\ PreciseFilledRatio(filters[last.a], heap).ones > OnesCount(last.pre.bits)

(* C8 *)

\* C8: wraparound: for an index i >= m, getBit(i) returns what getBit(i mod m)
\* returns and setBit(i) yields the bit array setBit(i mod m) yields; neither
\* indexes outside the bit array.
C8_Wraparound ==
    \A s \in Slots :
        Live(s) =>
            \A i \in IndexValues :
                i >= filters[s].m =>
                    /\ ~getBit(filters[s], heap, i).panic
                    /\ ~setBit(filters[s], heap, i).panic
                    /\ getBit(filters[s], heap, i) = getBit(filters[s], heap, i % filters[s].m)
                    /\ setBit(filters[s], heap, i) = setBit(filters[s], heap, i % filters[s].m)
                    /\ BitIsSet(View(filters[s], setBit(filters[s], heap, i).hp),
                                i % filters[s].m)

\* an Add has derived an index >= m and set the bit at that index mod m
C8_Witness ==
    /\ last.op = "Add"
    /\ ~last.panic
    /\ \E i \in 1..Len(last.pre.keys) :
          /\ Xor(last.arg, last.pre.keys[i]) >= last.pre.m
          /\ ~BitIsSet(last.pre, Xor(last.arg, last.pre.keys[i]) % last.pre.m)
          /\ BitIsSet(Now(last.a), Xor(last.arg, last.pre.keys[i]) % last.pre.m)

(* C9 *)

\* C9: New(m, k) panics exactly when m <= 1 or k = 0; otherwise it returns a
\* filter with M() = m, K() = k, N() = 0 and all bits clear, on which Contains
\* is false for every element.
C9_New ==
    last.op = "New" =>
        /\ last.panic = (last.arg <= 1 \/ last.arg2 = 0)
        /\ ~last.panic =>
              /\ last.out # NoFilter
              /\ M(last.out) = last.arg
              /\ K(last.out) = last.arg2
              /\ N(last.out) = 0
              /\ \A i \in 1..Len(last.out.bits) : last.out.bits[i] = {}
              /\ \A h \in ProbeValues :
                    ContainsV(last.out, h) = [panic |-> FALSE, val |-> FALSE]
              /\ Now(last.dst) = last.out

\* New(70, 2) has returned a filter
C9_Witness ==
    /\ last.op = "New"
    /\ ~last.panic
    /\ last.arg = 70
    /\ last.arg2 = 2
    /\ Len(last.out.bits) = 2

(* C10 *)

\* C10: IsCompatible returns true exactly when the two filters have the same
\* m, the same K and element-wise equal keys in order, whatever their bit
\* arrays and n; it does not index out of range.
C10_IsCompatible ==
    last.op = "IsCompatible" =>
        /\ ~last.panic
        /\ last.ret = Compatible(last.pre, last.pre2)

\* IsCompatible has returned true for two filters of different bits and n
C10_Witness ==
    /\ last.op = "IsCompatible"
    /\ last.ret
    /\ last.a # last.b
    /\ last.pre.bits # last.pre2.bits
    /\ last.pre.n # last.pre2.n

(* C11 *)

\* C11: a failed decode exposes no partial filter: whenever UnmarshalBinary
\* returns an error, the receiver has the m, n, keys and bit array it had
\* before the call.
C11_DecodeFailureKeepsReceiver ==
    (last.op = "UnmarshalBinary" /\ last.err) => Now(last.a) = last.pre

(* C12 *)

\* C12: OptimalM(maxN, p) returns ceil(-maxN * ln(p) * ln(2)) for positive maxN
\* and p in (0,1).
C12_OptimalM ==
    last.op = "OptimalM" =>
        last.num = Ceil(FMul(FMul(-Float64(last.arg), Log(last.arg2)), Ln2))

(* C13 *)

\* C13: for compatible f and g, f.Union(g) succeeds and returns a filter with
\* the m and keys of f, the n of f (that of g is ignored), and each word of its
\* bit array equal to the OR of the words of f and g at that position.
C13_UnionResult ==
    (last.op = "Union" /\ Compatible(last.pre, last.pre2)) =>
        /\ ~last.err /\ ~last.panic
        /\ last.out # NoFilter
        /\ M(last.out) = M(last.pre)
        /\ last.out.keys = last.pre.keys
        /\ N(last.out) = N(last.pre)
        /\ Len(last.pre2.bits) = Len(last.pre.bits)
        /\ Len(last.out.bits) = Len(last.pre.bits)
        /\ \A i \in 1..Len(last.out.bits) :
              last.out.bits[i] = last.pre.bits[i] \cup last.pre2.bits[i]

\* a union of two filters of different n whose first words each hold a bit the
\* other lacks
C13_Witness ==
    /\ last.op = "Union"
    /\ ~last.err /\ ~last.panic
    /\ N(last.pre) > 0
    /\ N(last.pre2) > N(last.pre)
    /\ N(last.out) = N(last.pre)
    /\ ~(last.pre.bits[1] \subseteq last.pre2.bits[1])
    /\ ~(last.pre2.bits[1] \subseteq last.pre.bits[1])
    /\ last.out.bits[1] = last.pre.bits[1] \cup last.pre2.bits[1]

(* C14 *)

\* the arrays a Filter struct refers to
Storage(f) == {f.keys, f.bits} \ {0}

\* C14: no aliasing: Copy returns a filter equal to the receiver in m, n, keys
\* and bits; Copy and a successful Union leave their operands unchanged and
\* return a filter that shares no array with them; an Add on one filter changes
\* neither the bits nor the n of another (result or operand).
C14_NoAliasing ==
    /\ last.op = "Copy" =>
          /\ last.out = last.pre
          /\ Now(last.dst) = last.out
          /\ last.dst # last.a => Now(last.a) = last.pre
    /\ (last.op = "Union" /\ ~last.err /\ ~last.panic) =>
          /\ Now(last.a) = last.pre
          /\ Now(last.b) = last.pre2
          /\ \E r \in {Union(filters[last.a], filters[last.b], heap)} :
                /\ View(r.f, r.hp) = last.out
                /\ Storage(r.f) \cap (Storage(filters[last.a]) \cup Storage(filters[last.b])) = {}
                /\ \A h \in HashValues :
                      /\ View(filters[last.a], Add(r.f, r.hp, h).hp) = last.pre
                      /\ View(filters[last.b], Add(r.f, r.hp, h).hp) = last.pre2
                      /\ View(r.f, Add(filters[last.a], r.hp, h).hp) = last.out
                      /\ View(r.f, Add(filters[last.b], r.hp, h).hp) = last.out
    /\ \A s \in Slots, t \in Slots :
          (s # t /\ Live(s) /\ Live(t)) =>
              /\ Storage(filters[s]) \cap Storage(filters[t]) = {}
              /\ Changed =>
                    \A h \in HashValues :
                        View(filters[t], Add(filters[s], heap, h).hp) = ViewOf(t)

\* an Add has set a bit in one of two filters that were equal in m, n, keys and
\* bits, and the other still has the bits and n they both had
C14_Witness ==
    /\ last.op = "Add"
    /\ ~last.panic
    /\ \E t \in Slots \ {last.a} :
          /\ Live(t)
          /\ Now(t) = last.pre
          /\ N(last.pre) > 0
          /\ Now(last.a).bits # Now(t).bits
          /\ N(Now(last.a)) = N(Now(t)) + 1

(* C15 *)

\* m >= 2, K = number of keys >= 1, bit array of ceil(m/64) words
WellFormed(v) ==
    /\ M(v) >= 2
    /\ K(v) >= 1
    /\ Len(v.bits) = WordCount(M(v))

\* C15: structural invariant: every filter obtained through New, Add, Copy,
\* Union and UnmarshalBinary has m >= 2, K >= 1 and a bit array of ceil(m/64)
\* words (the receiver of a decode that returned an error is not such a filter).
C15_StructuralInvariant ==
    /\ \A s \in Slots :
          (Live(s) /\ ~(last.op = "UnmarshalBinary" /\ last.err /\ last.a = s))
              => WellFormed(Now(s))
    /\ (last.op = "Union" /\ last.out # NoFilter) => WellFormed(last.out)

(* C16 *)

\* C16: Add(e) sets exactly the bits at the logical indices
\* ((hash(e) XOR key_i) mod m), i = 1..K in key order, leaves every other bit,
\* m and the keys unchanged, and increments n by one.
C16_AddFrame ==
    last.op = "Add" =>
        /\ ~last.panic
        /\ M(Now(last.a)) = M(last.pre)
        /\ Now(last.a).keys = last.pre.keys
        /\ N(Now(last.a)) = N(last.pre) + 1
        /\ Len(Now(last.a).bits) = Len(last.pre.bits)
        /\ SetPositions(Now(last.a).bits)
              = SetPositions(last.pre.bits) \cup LogicalIndices(last.pre, last.arg)

\* an Add with two keys on a filter that held other bits has set two bits,
\* one in each word
C16_Witness ==
    /\ last.op = "Add"
    /\ K(last.pre) = 2
    /\ OnesCount(last.pre.bits) = 2
    /\ \E j1 \in LogicalIndices(last.pre, last.arg), j2 \in LogicalIndices(last.pre, last.arg) :
          /\ j1 < WordBits /\ j2 >= WordBits
          /\ ~BitIsSet(last.pre, j1) /\ ~BitIsSet(last.pre, j2)
          /\ BitIsSet(Now(last.a), j1) /\ BitIsSet(Now(last.a), j2)
    /\ OnesCount(Now(last.a).bits) = 4

(* C17 *)

\* the bytes MarshalBinary wrote for K in the whole encoding data of filter v:
\* what is left of data after n, m, the keys and the bit array, 8 bytes each
KWrittenBytes(data, v) == Len(data) - WordBytes * (2 + K(v) + Len(v.bits))

\* data is K, n, m, the keys and the bit-array words of v, in this order, each
\* one 64-bit little-endian value
LayoutOf(data, v) ==
    /\ Len(data) = WordBytes * (3 + K(v) + WordCount(M(v)))
    /\ ReadWords(data, 0, 3) = <<BitsOf(K(v)), BitsOf(N(v)), BitsOf(M(v))>>
    /\ ReadWords(data, 3 * WordBytes, K(v)) = [i \in 1..K(v) |-> BitsOf(v.keys[i])]
    /\ ReadWords(data, (3 + K(v)) * WordBytes, WordCount(M(v))) = v.bits

\* the encoder's part of C17: the layout of the bytes, and the filter unchanged
MarshalLayoutOnly ==
    last.op = "MarshalBinary" =>
        /\ LayoutOf(last.data, last.pre)
        /\ Now(last.a) = last.pre

\* C17: MarshalBinary emits K, n, m, the K keys and the ceil(m/64) bit-array
\* words in this order, each as one 64-bit little-endian value (3 + K +
\* ceil(m/64) words), and leaves the filter unchanged; UnmarshalBinary reads K
\* with the width MarshalBinary wrote it with.
C17_MarshalLayout ==
    /\ MarshalLayoutOnly
    /\ (last.op = "UnmarshalBinary" /\ last.whole) =>
          KReadBytes = KWrittenBytes(last.data, last.pre2)

(* C18 *)

\* the heap after Add of each raw hash of the set hs, smallest first
RECURSIVE AddAll(_, _, _)
AddAll(f, hp, hs) ==
    IF hs = {} THEN hp
    ELSE AddAll(f, Add(f, hp, Min(hs)).hp, hs \ {Min(hs)})

\* the bit array of an empty filter with the m and keys of v after adding, once
\* each, the raw hashes of hs
BitsOfSet(v, hs) ==
    AddAll(StructOf(v), <<v.keys, ZeroWords(Len(v.bits))>>, hs)[2]

\* C18: Add is idempotent on the bit array: Add(e) on a filter e was already
\* added to changes no bit and increments n; and the bit array after any
\* sequence of Adds is determined by the set of raw hashes added, whatever
\* their order and multiplicity.
C18_AddIdempotent ==
    \A s \in Slots :
        (Changed /\ Live(s)) =>
            /\ \A h \in hist[s].adds :
                  \E r \in {Add(filters[s], heap, h)} :
                      /\ ~r.panic
                      /\ View(r.f, r.hp).bits = Now(s).bits
                      /\ View(r.f, r.hp).keys = Now(s).keys
                      /\ M(r.f) = M(Now(s))
                      /\ N(r.f) = N(Now(s)) + 1
            /\ Now(s).bits = BitsOfSet(Now(s), hist[s].adds)

\* the element a filter with two keys already held has been added again: the
\* bits are as before and n went from 1 to 2
C18_Witness ==
    /\ last.op = "Add"
    /\ K(last.pre) = 2
    /\ hist[last.a].adds = {last.arg}
    /\ N(last.pre) = 1
    /\ N(Now(last.a)) = 2
    /\ OnesCount(last.pre.bits) = 2
    /\ Now(last.a).bits = last.pre.bits

(* C19 *)

\* no bit at a position >= m is set, so at most m bits are
NoPadding(v) ==
    /\ \A j \in SetPositions(v.bits) : j < M(v)
    /\ OnesCount(v.bits) <= M(v)

\* C19: in every filter obtained through New, Add, Copy and Union no bit at a
\* position >= m is set (setBit reduces every index modulo m before setting
\* it), so the count of set bits PreciseFilledRatio divides by m is at most m.
C19_NoPaddingBits ==
    /\ \A s \in Slots :
          Live(s) =>
              /\ NoPadding(Now(s))
              /\ PreciseFilledRatio(filters[s], heap).ones <= M(Now(s))
              /\ Changed =>
                    \A i \in IndexValues :
                        NoPadding(View(filters[s], setBit(filters[s], heap, i).hp))
    /\ (last.op = "Union" /\ last.out # NoFilter) => NoPadding(last.out)
    /\ last.op = "PreciseFilledRatio" => last.ones <= M(last.pre)

\* PreciseFilledRatio has counted 2 set bits in a filter of 3 bits, whose word
\* has 61 padding bits, after Adds that derived indices above m
C19_Witness ==
    /\ last.op = "PreciseFilledRatio"
    /\ M(last.pre) = 3
    /\ last.ones = 2
    /\ N(last.pre) = 2
    /\ \E h \in hist[last.a].adds, i \in 1..K(last.pre) :
          Xor(h, last.pre.keys[i]) >= M(last.pre)

(* C20 *)

\* C20: on compatible filters Union is commutative and idempotent on the bit
\* array: f.Union(g) and g.Union(f) have the same bits, m and keys, each with
\* the n of its receiver, and f.Union(f) has the bits and n of f.
C20_UnionCommutes ==
    (last.op = "Union" /\ Compatible(last.pre, last.pre2)) =>
        /\ ~last.err /\ ~last.panic
        /\ \E r \in {Union(filters[last.b], filters[last.a], heap)} :
              /\ ~r.err /\ ~r.panic
              /\ View(r.f, r.hp).bits = last.out.bits
              /\ View(r.f, r.hp).keys = last.out.keys
              /\ M(r.f) = M(last.out)
              /\ N(r.f) = N(last.pre2)
              /\ N(last.out) = N(last.pre)
        /\ \E r \in {Union(filters[last.a], filters[last.a], heap)} :
              /\ ~r.err /\ ~r.panic
              /\ View(r.f, r.hp).bits = last.pre.bits
              /\ N(r.f) = N(last.pre)
        /\ last.a = last.b =>
              /\ last.out.bits = last.pre.bits
              /\ N(last.out) = N(last.pre)

\* a union of two compatible filters, neither of which holds all the bits of
\* the other, whose n differ
C20_Witness ==
    /\ last.op = "Union"
    /\ ~last.err /\ ~last.panic
    /\ last.a # last.b
    /\ N(last.pre) # N(last.pre2)
    /\ \E i \in 1..Len(last.pre.bits) : ~(last.pre.bits[i] \subseteq last.pre2.bits[i])
    /\ \E i \in 1..Len(last.pre.bits) : ~(last.pre2.bits[i] \subseteq last.pre.bits[i])
    /\ Len(last.pre.bits) = 2
    /\ last.out.bits # last.pre.bits
    /\ last.out.bits # last.pre2.bits

====
